---- MODULE Spec2Model ----
(***************************************************************************)
(* Model of the priority-queue matching engine: MatchingEngine (directory  *)
(* of per-symbol OrderBooks) and OrderBook (two std::priority_queue's and  *)
(* the id index allOrders), with addOrder / modifyOrder / cancelOrder and  *)
(* the matching loop matchOrders.                                          *)
(*                                                                         *)
(* A std::priority_queue is modelled as the set of its elements; top() is  *)
(* any element that the comparator ranks below no other element.  The      *)
(* order among elements the comparator cannot tell apart (same price, same *)
(* millisecond) is left unspecified by the container, so it is a           *)
(* nondeterministic choice here.                                           *)
(***************************************************************************)
EXTENDS Integers, Sequences, FiniteSets, TLC

\* ---------------------------------------------------------------- bounds
\* the number of calls made on the engine
MaxOps == 3

\* the values the callers draw their arguments from
Symbols == {"X", "Y"}
SymbolOrder == <<"X", "Y">>
Ids == {"A", "B", "C"}
Types == {"BUY", "SELL"}
Prices == {1, 2}
Quantities == {1, 2}
\* the milliseconds the clock shows
Times == {0, 1}
\* the ids callers use in each symbol
PlaceIds == [s \in Symbols |-> IF s = "X" THEN Ids ELSE {"A"}]
\* the threads calling the engine at the same time
Callers == {"c1", "c2"}
\* the symbol the concurrent callers place their orders in
ContendedSymbol == "X"
\* a caller that is in no call
Idle == [orderId |-> "-", symbol |-> "none", quantity |-> 0]
\* the account of an id that was never placed
NeverPlaced == [placed |-> 0, traded |-> 0]
\* an OrderBook.hpp book with no price level
EmptyLevels == [buyOrders |-> <<>>, sellOrders |-> <<>>]

VARIABLES orderBooks, now, trades, lastOp, arrival, filled, nOps

\* the notifier's record of the last call: the notifications it was handed,
\* each with the queues as they stood when sendTradeNotification was entered
VARIABLE sent

\* the placeOrder call each concurrent caller is in the middle of
VARIABLE inProgress

\* the single OrderBook of the MatchingEngine.hpp engine, and what its last
\* processOrder call executed
VARIABLES orderBook, executed

\* the ids cancelOrder returned true for and no placeOrder has accepted since
VARIABLE cancelled

\* for each symbol and id, the quantity the order was last placed with and
\* the quantity traded in its name since
VARIABLE lifetime

vars == <<orderBooks, now, trades, lastOp, arrival, filled, nOps,
          sent, inProgress, orderBook, executed, cancelled, lifetime>>

\* ---------------------------------------------------------------- values
Order(id, sym, t, p, q, ts) ==
    [orderId |-> id, symbol |-> sym, type |-> t, price |-> p,
     quantity |-> q, timestamp |-> ts]

Trade(buyId, sellId, sym, p, q) ==
    [buyOrderId |-> buyId, sellOrderId |-> sellId, symbol |-> sym,
     price |-> p, quantity |-> q]

setQuantity(o, q) == [o EXCEPT !.quantity = q]

EmptyBook == [buyOrders |-> {}, sellOrders |-> {}, allOrders |-> <<>>]

\* std::map operations on the id index
MapErase(m, k) == [x \in DOMAIN m \ {k} |-> m[x]]

MapEmplace(m, k, v) ==
    IF k \in DOMAIN m THEN m
    ELSE [x \in DOMAIN m \cup {k} |-> IF x = k THEN v ELSE m[x]]

\* std::max where matchOrders calls std::min
Min_Larger(a, b) == IF a < b THEN b ELSE a

Min(a, b) == IF a < b THEN a ELSE b

\* ---------------------------------------------------------- comparators
CompareBuyOrders(a, b) ==
    IF a.price # b.price THEN a.price < b.price
    ELSE a.timestamp > b.timestamp

\* CompareSellOrders without its comparison of the prices
CompareSellOrders_TimeOnly(a, b) == a.timestamp > b.timestamp

CompareSellOrders(a, b) ==
    IF a.price # b.price THEN a.price > b.price
    ELSE a.timestamp > b.timestamp

\* the elements top() may return
BuyTops(q) == {o \in q : \A x \in q : ~CompareBuyOrders(o, x)}

SellTops(q) == {o \in q : \A x \in q : ~CompareSellOrders(o, x)}

\* ---------------------------------------------------------- matchOrders
TradePrice(buyOrder, sellOrder) ==
    IF buyOrder.timestamp < sellOrder.timestamp THEN buyOrder.price
    ELSE sellOrder.price

\* the match test with > in place of >=
Crosses_Strict(buyOrder, sellOrder) == buyOrder.price > sellOrder.price

\* the loop's match test
Crosses(buyOrder, sellOrder) == buyOrder.price >= sellOrder.price

\* the copy of an order the loop holds after the quantity update
AfterFill(o, tradedQuantity) ==
    IF o.quantity - tradedQuantity > 0
    THEN setQuantity(o, o.quantity - tradedQuantity)
    ELSE o

\* the push() of the copy whose quantity was not updated
Requeue_StaleQuantity(q, o, tradedQuantity) ==
    IF o.quantity - tradedQuantity > 0 THEN q ELSE q \ {o}

\* the queue after pop() and the conditional push()
Requeue(q, o, tradedQuantity) ==
    IF o.quantity - tradedQuantity > 0
    THEN (q \ {o}) \cup {setQuantity(o, o.quantity - tradedQuantity)}
    ELSE q \ {o}

\* the id index after the two erase() and the conditional emplace() calls
UpdateAllOrders(all, b2, s2) ==
    LET e  == MapErase(MapErase(all, b2.orderId), s2.orderId)
        e1 == IF b2.quantity > 0 THEN MapEmplace(e, b2.orderId, b2) ELSE e
    IN  IF s2.quantity > 0 THEN MapEmplace(e1, s2.orderId, s2) ELSE e1

RECURSIVE matchOrders(_, _, _, _, _)
matchOrders(buy, sell, all, sym, tr) ==
    IF buy = {} \/ sell = {}
    THEN {[buyOrders |-> buy, sellOrders |-> sell, allOrders |-> all, trades |-> tr]}
    ELSE UNION {
        IF Crosses(pr[1], pr[2])
        THEN LET buyOrder == pr[1]
                 sellOrder == pr[2]
                 tradedQuantity == Min(buyOrder.quantity, sellOrder.quantity)
                 newTrade == Trade(buyOrder.orderId, sellOrder.orderId, sym,
                                   TradePrice(buyOrder, sellOrder), tradedQuantity)
             IN  matchOrders(Requeue(buy, buyOrder, tradedQuantity),
                             Requeue(sell, sellOrder, tradedQuantity),
                             UpdateAllOrders(all, AfterFill(buyOrder, tradedQuantity),
                                             AfterFill(sellOrder, tradedQuantity)),
                             sym, Append(tr, newTrade))
        ELSE {[buyOrders |-> buy, sellOrders |-> sell, allOrders |-> all, trades |-> tr]}
        : pr \in BuyTops(buy) \X SellTops(sell) }

\* ------------------------------------------------------------ OrderBook
Push(book, o) ==
    IF o.type = "BUY"
    THEN [book EXCEPT !.buyOrders = @ \cup {o}]
    ELSE [book EXCEPT !.sellOrders = @ \cup {o}]

\* removeOrderFromQueues pushing no order back
removeOrderFromQueues_DropSide(book, orderId, type) ==
    IF type = "BUY" THEN [book EXCEPT !.buyOrders = {}]
    ELSE [book EXCEPT !.sellOrders = {}]

\* removeOrderFromQueues pushing every order back, the one to remove too
removeOrderFromQueues_KeepAll(book, orderId, type) == book

\* the queue of the order's side rebuilt without the order
removeOrderFromQueues(book, orderId, type) ==
    IF type = "BUY"
    THEN [book EXCEPT !.buyOrders = {o \in @ : o.orderId # orderId}]
    ELSE [book EXCEPT !.sellOrders = {o \in @ : o.orderId # orderId}]

\* addOrder without its duplicate test
IsDuplicate_Never(book, orderId) == FALSE

\* addOrder's duplicate test
IsDuplicate(book, orderId) == orderId \in DOMAIN book.allOrders

\* the outcomes of OrderBook::addOrder: sets of [book, trades, ok]
addOrder(book, sym, newOrder) ==
    IF IsDuplicate(book, newOrder.orderId)
    THEN {[book |-> book, trades |-> <<>>, ok |-> FALSE]}
    ELSE LET b1 == Push([book EXCEPT !.allOrders =
                            MapEmplace(@, newOrder.orderId, newOrder)], newOrder)
         IN  {[book |-> [buyOrders |-> r.buyOrders, sellOrders |-> r.sellOrders,
                         allOrders |-> r.allOrders],
               trades |-> r.trades, ok |-> TRUE]
              : r \in matchOrders(b1.buyOrders, b1.sellOrders, b1.allOrders, sym, <<>>)}

\* the replacement order keeping the timestamp of its own construction
ModifiedTimestamp_Fresh(oldOrder, ts) == ts

\* the timestamp modifyOrder gives the replacement order
ModifiedTimestamp(oldOrder, ts) == oldOrder.timestamp

\* the outcomes of OrderBook::modifyOrder
bookModifyOrder(book, sym, orderId, newPrice, newQuantity, ts) ==
    IF orderId \notin DOMAIN book.allOrders
    THEN {[book |-> book, trades |-> <<>>, ok |-> FALSE]}
    ELSE LET oldOrder == book.allOrders[orderId]
             b0 == removeOrderFromQueues(book, orderId, oldOrder.type)
             b1 == [b0 EXCEPT !.allOrders = MapErase(@, orderId)]
             modifiedOrder == Order(orderId, oldOrder.symbol, oldOrder.type,
                                    newPrice, newQuantity,
                                    ModifiedTimestamp(oldOrder, ts))
             b2 == Push([b1 EXCEPT !.allOrders =
                            MapEmplace(@, orderId, modifiedOrder)], modifiedOrder)
         IN  {[book |-> [buyOrders |-> r.buyOrders, sellOrders |-> r.sellOrders,
                         allOrders |-> r.allOrders],
               trades |-> r.trades, ok |-> TRUE]
              : r \in matchOrders(b2.buyOrders, b2.sellOrders, b2.allOrders, sym, <<>>)}

\* the outcome of OrderBook::cancelOrder
bookCancelOrder(book, orderId) ==
    IF orderId \notin DOMAIN book.allOrders
    THEN [book |-> book, ok |-> FALSE]
    ELSE LET orderToCancel == book.allOrders[orderId]
             b0 == removeOrderFromQueues(book, orderId, orderToCancel.type)
         IN  [book |-> [b0 EXCEPT !.allOrders = MapErase(@, orderId)], ok |-> TRUE]

\* --------------------------------------------------------- MatchingEngine
\* getOrderBook: the directory after the lookup, which creates a missing book
getOrderBook(obs, sym) ==
    IF sym \in DOMAIN obs THEN obs
    ELSE [s \in DOMAIN obs \cup {sym} |-> IF s = sym THEN EmptyBook ELSE obs[s]]

\* the books whose getAllOrders() holds the id, in the directory's key order
BooksWith(obs, orderId) ==
    {i \in 1..Len(SymbolOrder) :
        /\ SymbolOrder[i] \in DOMAIN obs
        /\ orderId \in DOMAIN obs[SymbolOrder[i]].allOrders}

\* the first such book, or "none"
FindBook(obs, orderId) ==
    IF BooksWith(obs, orderId) = {} THEN "none"
    ELSE SymbolOrder[CHOOSE i \in BooksWith(obs, orderId) :
                        \A j \in BooksWith(obs, orderId) : i <= j]

\* ------------------------------------------------------------ ghost state
Queue(book) == book.buyOrders \cup book.sellOrders

\* ids resting in a queue of the book
Resting(book) == {o.orderId : o \in Queue(book)}

RECURSIVE SeqFilter(_, _)
SeqFilter(s, keep) ==
    IF s = <<>> THEN <<>>
    ELSE IF Head(s) \in keep THEN <<Head(s)>> \o SeqFilter(Tail(s), keep)
         ELSE SeqFilter(Tail(s), keep)

TradeIds(t) == {t.buyOrderId, t.sellOrderId}

Traded(tr) == UNION {TradeIds(tr[i]) : i \in 1..Len(tr)}

\* arrival[sym]: the ids resting in sym's book that a placeOrder call put
\* there, in the order of those calls
ArrivalAfter(sym, book, placed) ==
    [arrival EXCEPT ![sym] =
        SeqFilter(SeqFilter(@, Ids \ placed) \o
                  (IF placed = {} THEN <<>> ELSE <<CHOOSE x \in placed : TRUE>>),
                  Resting(book))]

\* filled: the <<symbol, id>> of the orders whose whole quantity has traded,
\* until the id is placed, amended or cancelled again in that symbol
FilledAfter(sym, book, tr, renewed) ==
    (filled \ {<<sym, x>> : x \in renewed})
        \cup {<<sym, x>> : x \in Traded(tr) \ Resting(book)}

\* the last call made on the engine and what it reported
Op(kind, id, sym, q, ok) ==
    [kind |-> kind, orderId |-> id, symbol |-> sym, quantity |-> q, ok |-> ok]

\* ----------------------------------------------------------------- Init
Init ==
    /\ orderBooks = <<>>
    /\ now = 0
    /\ trades = <<>>
    /\ lastOp = Op("init", "-", "none", 0, FALSE)
    /\ arrival = [s \in Symbols |-> <<>>]
    /\ filled = {}
    /\ nOps = 0
    /\ sent = <<>>
    /\ inProgress = [c \in Callers |-> Idle]
    /\ orderBook = EmptyLevels
    /\ executed = <<>>
    /\ cancelled = {}
    /\ lifetime = [k \in Symbols \X Ids |-> NeverPlaced]

\* -------------------------------------------------------------- actions
\* MatchingEngine::placeOrder on an Order whose constructor read the clock
\* at now + dt
placeOrder(id, sym, t, p, q, dt) ==
    /\ nOps < MaxOps
    /\ nOps' = nOps + 1
    /\ now + dt \in Times
    /\ now' = now + dt
    /\ LET order == Order(id, sym, t, p, q, now + dt)
           obs == getOrderBook(orderBooks, sym)
       IN  \E r \in addOrder(obs[sym], sym, order) :
             /\ orderBooks' = [obs EXCEPT ![sym] = r.book]
             /\ trades' = r.trades
             /\ lastOp' = Op("place", id, sym, q, r.ok)
             /\ arrival' = ArrivalAfter(sym, r.book, IF r.ok THEN {id} ELSE {})
             /\ filled' = FilledAfter(sym, r.book, r.trades,
                                      IF r.ok THEN {id} ELSE {})

\* MatchingEngine::modifyOrder
modifyOrder(id, p, q) ==
    /\ nOps < MaxOps
    /\ nOps' = nOps + 1
    /\ UNCHANGED now
    /\ LET sym == FindBook(orderBooks, id)
       IN  IF sym = "none"
           THEN /\ UNCHANGED <<orderBooks, arrival, filled>>
                /\ trades' = <<>>
                /\ lastOp' = Op("modify", id, "none", q, FALSE)
           ELSE \E r \in bookModifyOrder(orderBooks[sym], sym, id, p, q, now) :
                  /\ orderBooks' = [orderBooks EXCEPT ![sym] = r.book]
                  /\ trades' = r.trades
                  /\ lastOp' = Op("modify", id, sym, q, r.ok)
                  /\ arrival' = ArrivalAfter(sym, r.book, {})
                  /\ filled' = FilledAfter(sym, r.book, r.trades, {id})

\* MatchingEngine::cancelOrder
cancelOrder(id) ==
    /\ nOps < MaxOps
    /\ nOps' = nOps + 1
    /\ UNCHANGED now
    /\ trades' = <<>>
    /\ LET sym == FindBook(orderBooks, id)
       IN  IF sym = "none"
           THEN /\ UNCHANGED <<orderBooks, arrival, filled>>
                /\ lastOp' = Op("cancel", id, "none", 0, FALSE)
           ELSE LET r == bookCancelOrder(orderBooks[sym], id)
                IN  /\ orderBooks' = [orderBooks EXCEPT ![sym] = r.book]
                    /\ lastOp' = Op("cancel", id, sym, 0, r.ok)
                    /\ arrival' = ArrivalAfter(sym, r.book, {})
                    /\ filled' = FilledAfter(sym, r.book, <<>>, {id})

\* what a sequential run with the shipped notifier leaves alone
Sequential == UNCHANGED <<sent, inProgress, orderBook, executed, cancelled, lifetime>>

Next ==
    \/ \E sym \in Symbols, t \in Types, p \in Prices, q \in Quantities, dt \in 0..1 :
          \E id \in PlaceIds[sym] : placeOrder(id, sym, t, p, q, dt) /\ Sequential
    \/ \E id \in Ids, p \in Prices, q \in Quantities :
          modifyOrder(id, p, q) /\ Sequential
    \/ \E id \in Ids : cancelOrder(id) /\ Sequential

Spec == Init /\ [][Next]_vars

\* ------------------------------------------- a notifier that can throw
\* what sendTradeNotification is handed, with the queues as they stand when
\* it is entered, and whether this call of it threw
Notification(trade, buy, sell, threw) ==
    [trade |-> trade, buyOrders |-> buy, sellOrders |-> sell, threw |-> threw]

\* matchOrders with its call of the notifier made visible: the notifier is
\* entered after the trade was appended and before the two pop() calls, and
\* an exception it throws leaves the loop there
RECURSIVE matchOrdersNotifying(_, _, _, _, _, _)
matchOrdersNotifying(buy, sell, all, sym, tr, sn) ==
    IF buy = {} \/ sell = {}
    THEN {[buyOrders |-> buy, sellOrders |-> sell, allOrders |-> all,
           trades |-> tr, sent |-> sn, threw |-> FALSE]}
    ELSE UNION {
        IF Crosses(pr[1], pr[2])
        THEN LET buyOrder == pr[1]
                 sellOrder == pr[2]
                 tradedQuantity == Min(buyOrder.quantity, sellOrder.quantity)
                 newTrade == Trade(buyOrder.orderId, sellOrder.orderId, sym,
                                   TradePrice(buyOrder, sellOrder), tradedQuantity)
             IN  {[buyOrders |-> buy, sellOrders |-> sell, allOrders |-> all,
                   trades |-> Append(tr, newTrade),
                   sent |-> Append(sn, Notification(newTrade, buy, sell, TRUE)),
                   threw |-> TRUE]}
                 \cup
                 matchOrdersNotifying(
                     Requeue(buy, buyOrder, tradedQuantity),
                     Requeue(sell, sellOrder, tradedQuantity),
                     UpdateAllOrders(all, AfterFill(buyOrder, tradedQuantity),
                                     AfterFill(sellOrder, tradedQuantity)),
                     sym, Append(tr, newTrade),
                     Append(sn, Notification(newTrade, buy, sell, FALSE)))
        ELSE {[buyOrders |-> buy, sellOrders |-> sell, allOrders |-> all,
               trades |-> tr, sent |-> sn, threw |-> FALSE]}
        : pr \in BuyTops(buy) \X SellTops(sell) }

\* what addOrder and modifyOrder return from a run of the matching loop: the
\* catch clause returns an empty list
Returned(r) ==
    [book |-> [buyOrders |-> r.buyOrders, sellOrders |-> r.sellOrders,
               allOrders |-> r.allOrders],
     trades |-> IF r.threw THEN <<>> ELSE r.trades,
     ok |-> TRUE, sent |-> r.sent]

addOrderNotifying(book, sym, newOrder) ==
    IF IsDuplicate(book, newOrder.orderId)
    THEN {[book |-> book, trades |-> <<>>, ok |-> FALSE, sent |-> <<>>]}
    ELSE LET b1 == Push([book EXCEPT !.allOrders =
                            MapEmplace(@, newOrder.orderId, newOrder)], newOrder)
         IN  {Returned(r) : r \in matchOrdersNotifying(
                    b1.buyOrders, b1.sellOrders, b1.allOrders, sym, <<>>, <<>>)}

bookModifyOrderNotifying(book, sym, orderId, newPrice, newQuantity, ts) ==
    IF orderId \notin DOMAIN book.allOrders
    THEN {[book |-> book, trades |-> <<>>, ok |-> FALSE, sent |-> <<>>]}
    ELSE LET oldOrder == book.allOrders[orderId]
             b0 == removeOrderFromQueues(book, orderId, oldOrder.type)
             b1 == [b0 EXCEPT !.allOrders = MapErase(@, orderId)]
             modifiedOrder == Order(orderId, oldOrder.symbol, oldOrder.type,
                                    newPrice, newQuantity,
                                    ModifiedTimestamp(oldOrder, ts))
             b2 == Push([b1 EXCEPT !.allOrders =
                            MapEmplace(@, orderId, modifiedOrder)], modifiedOrder)
         IN  {Returned(r) : r \in matchOrdersNotifying(
                    b2.buyOrders, b2.sellOrders, b2.allOrders, sym, <<>>, <<>>)}

\* MatchingEngine::placeOrder with a notifier that may throw
placeOrderNotifying(id, sym, t, p, q, dt) ==
    /\ nOps < MaxOps
    /\ nOps' = nOps + 1
    /\ now + dt \in Times
    /\ now' = now + dt
    /\ LET order == Order(id, sym, t, p, q, now + dt)
           obs == getOrderBook(orderBooks, sym)
       IN  \E r \in addOrderNotifying(obs[sym], sym, order) :
             /\ orderBooks' = [obs EXCEPT ![sym] = r.book]
             /\ trades' = r.trades
             /\ sent' = r.sent
             /\ lastOp' = Op("place", id, sym, q, r.ok)
             /\ arrival' = ArrivalAfter(sym, r.book, IF r.ok THEN {id} ELSE {})
             /\ filled' = FilledAfter(sym, r.book, r.trades,
                                      IF r.ok THEN {id} ELSE {})

\* MatchingEngine::modifyOrder with a notifier that may throw
modifyOrderNotifying(id, p, q) ==
    /\ nOps < MaxOps
    /\ nOps' = nOps + 1
    /\ UNCHANGED now
    /\ LET sym == FindBook(orderBooks, id)
       IN  IF sym = "none"
           THEN /\ UNCHANGED <<orderBooks, arrival, filled>>
                /\ trades' = <<>>
                /\ sent' = <<>>
                /\ lastOp' = Op("modify", id, "none", q, FALSE)
           ELSE \E r \in bookModifyOrderNotifying(orderBooks[sym], sym, id, p, q, now) :
                  /\ orderBooks' = [orderBooks EXCEPT ![sym] = r.book]
                  /\ trades' = r.trades
                  /\ sent' = r.sent
                  /\ lastOp' = Op("modify", id, sym, q, r.ok)
                  /\ arrival' = ArrivalAfter(sym, r.book, {})
                  /\ filled' = FilledAfter(sym, r.book, r.trades, {id})

NextNotifier ==
    \/ \E sym \in Symbols, t \in Types, p \in Prices, q \in Quantities, dt \in 0..1 :
          \E id \in PlaceIds[sym] :
             /\ placeOrderNotifying(id, sym, t, p, q, dt)
             /\ UNCHANGED <<inProgress, orderBook, executed, cancelled, lifetime>>
    \/ \E id \in Ids, p \in Prices, q \in Quantities :
          /\ modifyOrderNotifying(id, p, q)
          /\ UNCHANGED <<inProgress, orderBook, executed, cancelled, lifetime>>
    \/ \E id \in Ids :
          /\ cancelOrder(id)
          /\ sent' = <<>>
          /\ UNCHANGED <<inProgress, orderBook, executed, cancelled, lifetime>>

SpecNotifier == Init /\ [][NextNotifier]_vars

\* ---------------------------------------------------- concurrent callers
\* MatchingEngine and OrderBook hold no lock, so the steps of two calls can
\* interleave. A placeOrder call is taken in two steps, each in one piece:
\* the lookup of the book with addOrder up to the push (OrderBook.cpp:13-25),
\* and the matching loop with the return (27-28).
beginPlaceOrder(c, id, sym, t, p, q, dt) ==
    /\ inProgress[c] = Idle
    /\ nOps < MaxOps
    /\ nOps' = nOps + 1
    /\ now + dt \in Times
    /\ now' = now + dt
    /\ trades' = <<>>
    /\ LET newOrder == Order(id, sym, t, p, q, now + dt)
           obs == getOrderBook(orderBooks, sym)
       IN  IF IsDuplicate(obs[sym], id)
           THEN /\ orderBooks' = obs
                /\ lastOp' = Op("place", id, sym, q, FALSE)
                /\ UNCHANGED <<inProgress, arrival, filled>>
           ELSE LET b1 == Push([obs[sym] EXCEPT !.allOrders =
                                   MapEmplace(@, id, newOrder)], newOrder)
                IN  /\ orderBooks' = [obs EXCEPT ![sym] = b1]
                    /\ lastOp' = Op("placing", id, sym, q, TRUE)
                    /\ inProgress' = [inProgress EXCEPT ![c] =
                          [orderId |-> id, symbol |-> sym, quantity |-> q]]
                    /\ arrival' = ArrivalAfter(sym, b1, {id})
                    /\ filled' = FilledAfter(sym, b1, <<>>, {id})

finishPlaceOrder(c) ==
    /\ inProgress[c] # Idle
    /\ UNCHANGED <<now, nOps>>
    /\ LET sym == inProgress[c].symbol
           book == orderBooks[sym]
       IN  \E r \in matchOrders(book.buyOrders, book.sellOrders, book.allOrders,
                               sym, <<>>) :
             LET b2 == [buyOrders |-> r.buyOrders, sellOrders |-> r.sellOrders,
                        allOrders |-> r.allOrders]
             IN  /\ orderBooks' = [orderBooks EXCEPT ![sym] = b2]
                 /\ trades' = r.trades
                 /\ lastOp' = Op("place", inProgress[c].orderId, sym,
                                 inProgress[c].quantity, TRUE)
                 /\ inProgress' = [inProgress EXCEPT ![c] = Idle]
                 /\ arrival' = ArrivalAfter(sym, b2, {})
                 /\ filled' = FilledAfter(sym, b2, r.trades, {})

NextConcurrent ==
    \/ \E c \in Callers, t \in Types, p \in Prices, q \in Quantities, dt \in 0..1 :
          \E id \in PlaceIds[ContendedSymbol] :
             /\ beginPlaceOrder(c, id, ContendedSymbol, t, p, q, dt)
             /\ UNCHANGED <<sent, orderBook, executed, cancelled, lifetime>>
    \/ \E c \in Callers :
          /\ finishPlaceOrder(c)
          /\ UNCHANGED <<sent, orderBook, executed, cancelled, lifetime>>
    \/ \E id \in Ids : cancelOrder(id) /\ Sequential

SpecConcurrent == Init /\ [][NextConcurrent]_vars

\* ------------------------------------------- callers that do not validate
\* CLI.cpp and main check price > 0 and quantity > 0 before they call the
\* engine; a caller that does not may pass any number
UncheckedPrices == {0, 1}
UncheckedQuantities == {-1, 0, 1}

NextUnchecked ==
    \/ \E sym \in Symbols, t \in Types, p \in UncheckedPrices,
          q \in UncheckedQuantities, dt \in 0..1 :
          \E id \in PlaceIds[sym] : placeOrder(id, sym, t, p, q, dt) /\ Sequential
    \/ \E id \in Ids, p \in UncheckedPrices, q \in UncheckedQuantities :
          modifyOrder(id, p, q) /\ Sequential
    \/ \E id \in Ids : cancelOrder(id) /\ Sequential

SpecUnchecked == Init /\ [][NextUnchecked]_vars

\* ------------------------------------ the engine of MatchingEngine.hpp
\* This engine keeps one OrderBook for all orders: two std::map's from a price
\* to the std::queue of the orders at that price, modelled as functions from
\* the prices present to sequences. Its Order is a struct with an int id.
LevelOrder(id, sym, t, p, q) ==
    [orderId |-> id, symbol |-> sym, type |-> t, price |-> p, quantity |-> q]

\* begin() as the worst price
FirstLevel_Worst(keys, restingType) ==
    IF restingType = "SELL"
    THEN CHOOSE k \in keys : \A j \in keys : k >= j
    ELSE CHOOSE k \in keys : \A j \in keys : k <= j

\* begin() of the levels not yet passed: the lowest sell price, the highest
\* buy price (std::greater)
FirstLevel(keys, restingType) ==
    IF restingType = "SELL"
    THEN CHOOSE k \in keys : \A j \in keys : k <= j
    ELSE CHOOSE k \in keys : \A j \in keys : k >= j

\* the test of the for loop on a level's price
Compatible(order, levelPrice) ==
    IF order.type = "BUY" THEN order.price >= levelPrice
    ELSE order.price <= levelPrice

\* the inner while loop on one level's queue; it subtracts the traded
\* quantity from a copy of front(), so an order that is not popped stays
\* queued as it was
RECURSIVE fillLevel(_, _, _, _, _)
fillLevel(queue, order, qty, levelPrice, fills) ==
    IF queue = <<>> \/ ~(qty > 0)
    THEN [queue |-> queue, quantity |-> qty, fills |-> fills]
    ELSE LET restingOrder == Head(queue)
             tradedQty == Min(qty, restingOrder.quantity)
             left == qty - tradedQty
             queue2 == IF restingOrder.quantity - tradedQty = 0
                       THEN Tail(queue)
                       ELSE queue
             fills2 == Append(fills, [incoming |-> order, resting |-> restingOrder,
                                      quantity |-> tradedQty, price |-> levelPrice])
         IN  IF left = 0
             THEN [queue |-> queue2, quantity |-> left, fills |-> fills2]
             ELSE fillLevel(queue2, order, left, levelPrice, fills2)

\* the level left in the map whatever its queue holds
afterLevel_Kept(levels, k, queue) == [levels EXCEPT ![k] = queue]

\* the map after the inner loop on level k: an emptied level is erased
afterLevel(levels, k, queue) ==
    IF queue = <<>> THEN MapErase(levels, k) ELSE [levels EXCEPT ![k] = queue]

\* the for loop over the levels of the opposite side; passed holds the keys
\* the iterator has moved beyond
RECURSIVE walkLevels(_, _, _, _, _, _)
walkLevels(levels, passed, restingType, order, qty, fills) ==
    IF DOMAIN levels \ passed = {}
    THEN [levels |-> levels, quantity |-> qty, fills |-> fills]
    ELSE LET k == FirstLevel(DOMAIN levels \ passed, restingType)
         IN  IF Compatible(order, k) /\ qty > 0
             THEN LET r == fillLevel(levels[k], order, qty, k, fills)
                      levels2 == afterLevel(levels, k, r.queue)
                  IN  walkLevels(levels2, passed \cup {k}, restingType, order,
                                 r.quantity, r.fills)
             ELSE [levels |-> levels, quantity |-> qty, fills |-> fills]

\* OrderBook::addOrder of OrderBook.hpp: operator[] makes the level if needed
levelsAddOrder(levels, order) ==
    IF order.price \in DOMAIN levels
    THEN [levels EXCEPT ![order.price] = Append(@, order)]
    ELSE [k \in DOMAIN levels \cup {order.price} |->
             IF k = order.price THEN <<order>> ELSE levels[k]]

\* MatchingEngine::processOrder; callers number their orders 1, 2, 3, ...
processOrder(sym, t, p, q) ==
    /\ nOps < MaxOps
    /\ nOps' = nOps + 1
    /\ LET order == LevelOrder(nOps + 1, sym, t, p, q)
           r == IF t = "BUY"
                THEN walkLevels(orderBook.sellOrders, {}, "SELL", order, q, <<>>)
                ELSE walkLevels(orderBook.buyOrders, {}, "BUY", order, q, <<>>)
           rest == [order EXCEPT !.quantity = r.quantity]
           own == IF t = "BUY" THEN orderBook.buyOrders ELSE orderBook.sellOrders
           own2 == IF r.quantity > 0 THEN levelsAddOrder(own, rest) ELSE own
       IN  /\ orderBook' = IF t = "BUY"
                           THEN [buyOrders |-> own2, sellOrders |-> r.levels]
                           ELSE [buyOrders |-> r.levels, sellOrders |-> own2]
           /\ executed' = r.fills
    /\ UNCHANGED <<orderBooks, now, trades, lastOp, arrival, filled, sent, inProgress,
                 cancelled, lifetime>>

NextProcess ==
    \E sym \in Symbols, t \in Types, p \in Prices, q \in Quantities :
        processOrder(sym, t, p, q)

SpecProcess == Init /\ [][NextProcess]_vars

\* ------------------------------------------------------ read operations
\* the directory after orderBooks.find(symbol) with operator[] in its place
findOrderBook_Creating(obs, sym) == getOrderBook(obs, sym)

\* the directory after orderBooks.find(symbol): find inserts nothing
findOrderBook(obs, sym) == obs

\* MatchingEngine::printOrderBook (const): prints the book or that there is none
printOrderBook(sym) ==
    /\ nOps < MaxOps
    /\ nOps' = nOps + 1
    /\ orderBooks' = findOrderBook(orderBooks, sym)
    /\ trades' = <<>>
    /\ lastOp' = Op("print", "-", sym, 0, sym \in DOMAIN orderBooks)
    /\ UNCHANGED <<now, arrival, filled>>

\* MatchingEngine::getAllOrders (const): walks the books that exist
getAllOrders ==
    /\ nOps < MaxOps
    /\ nOps' = nOps + 1
    /\ trades' = <<>>
    /\ lastOp' = Op("getAll", "-", "none", 0, TRUE)
    /\ UNCHANGED <<orderBooks, now, arrival, filled>>

\* the arguments of the calls mixed with the reads
ReadIds == {"A", "B"}

NextRead ==
    \/ \E sym \in Symbols : printOrderBook(sym) /\ Sequential
    \/ getAllOrders /\ Sequential
    \/ \E sym \in Symbols, t \in Types, p \in Prices, q \in Quantities :
          \E id \in PlaceIds[sym] \cap ReadIds :
             placeOrder(id, sym, t, p, q, 0) /\ Sequential
    \/ \E id \in ReadIds, p \in Prices, q \in Quantities :
          modifyOrder(id, p, q) /\ Sequential
    \/ \E id \in ReadIds : cancelOrder(id) /\ Sequential

SpecRead == Init /\ [][NextRead]_vars

\* ------------------------------------------- the matching loop, stepwise
\* the quantities a caller can hand to addOrder and modifyOrder
LoopQuantities == {-1, 0, 1}

\* the caller whose call is followed through the loop
LoopCaller == "c1"

\* OrderBook::modifyOrder up to its call of matchOrders
beginModifyOrder(c, id, p, q) ==
    /\ inProgress[c] = Idle
    /\ nOps < MaxOps
    /\ nOps' = nOps + 1
    /\ trades' = <<>>
    /\ UNCHANGED <<now, arrival, filled>>
    /\ LET sym == FindBook(orderBooks, id)
       IN  IF sym = "none"
           THEN /\ lastOp' = Op("modify", id, "none", q, FALSE)
                /\ UNCHANGED <<orderBooks, inProgress>>
           ELSE LET book == orderBooks[sym]
                    oldOrder == book.allOrders[id]
                    b0 == removeOrderFromQueues(book, id, oldOrder.type)
                    b1 == [b0 EXCEPT !.allOrders = MapErase(@, id)]
                    modifiedOrder == Order(id, oldOrder.symbol, oldOrder.type, p, q,
                                           ModifiedTimestamp(oldOrder, now))
                    b2 == Push([b1 EXCEPT !.allOrders =
                                   MapEmplace(@, id, modifiedOrder)], modifiedOrder)
                IN  /\ orderBooks' = [orderBooks EXCEPT ![sym] = b2]
                    /\ lastOp' = Op("modifying", id, sym, q, TRUE)
                    /\ inProgress' = [inProgress EXCEPT ![c] =
                          [orderId |-> id, symbol |-> sym, quantity |-> q]]

\* the book of the call in progress
LoopBook(c) == orderBooks[inProgress[c].symbol]

\* one pass of the while loop of matchOrders that finds a match
matchIteration(c) ==
    /\ inProgress[c] # Idle
    /\ LoopBook(c).buyOrders # {}
    /\ LoopBook(c).sellOrders # {}
    /\ UNCHANGED <<now, nOps, lastOp, inProgress, arrival, filled>>
    /\ \E buyOrder \in BuyTops(LoopBook(c).buyOrders),
          sellOrder \in SellTops(LoopBook(c).sellOrders) :
          /\ Crosses(buyOrder, sellOrder)
          /\ LET sym == inProgress[c].symbol
                 book == LoopBook(c)
                 tradedQuantity == Min(buyOrder.quantity, sellOrder.quantity)
                 newTrade == Trade(buyOrder.orderId, sellOrder.orderId, sym,
                                   TradePrice(buyOrder, sellOrder), tradedQuantity)
             IN  /\ trades' = Append(trades, newTrade)
                 /\ orderBooks' = [orderBooks EXCEPT ![sym] =
                       [buyOrders |-> Requeue(book.buyOrders, buyOrder, tradedQuantity),
                        sellOrders |-> Requeue(book.sellOrders, sellOrder, tradedQuantity),
                        allOrders |-> UpdateAllOrders(book.allOrders,
                                         AfterFill(buyOrder, tradedQuantity),
                                         AfterFill(sellOrder, tradedQuantity))]]

\* the loop left, by its condition or by the break, and the call returning
matchReturn(c) ==
    /\ inProgress[c] # Idle
    /\ \/ LoopBook(c).buyOrders = {}
       \/ LoopBook(c).sellOrders = {}
       \/ \E buyOrder \in BuyTops(LoopBook(c).buyOrders),
             sellOrder \in SellTops(LoopBook(c).sellOrders) :
             ~Crosses(buyOrder, sellOrder)
    /\ lastOp' = [lastOp EXCEPT !.kind = IF @ = "placing" THEN "place" ELSE "modify"]
    /\ inProgress' = [inProgress EXCEPT ![c] = Idle]
    /\ UNCHANGED <<orderBooks, now, trades, nOps, arrival, filled>>

\* what a call followed through the loop leaves alone
LoopFrame == UNCHANGED <<sent, orderBook, executed, cancelled, lifetime>>

NextLoop ==
    \/ \E id \in Ids, t \in Types, p \in Prices, q \in LoopQuantities, dt \in 0..1 :
          beginPlaceOrder(LoopCaller, id, ContendedSymbol, t, p, q, dt) /\ LoopFrame
    \/ \E id \in Ids, p \in Prices, q \in LoopQuantities :
          beginModifyOrder(LoopCaller, id, p, q) /\ LoopFrame
    \/ matchIteration(LoopCaller) /\ LoopFrame
    \/ matchReturn(LoopCaller) /\ LoopFrame

\* a call that entered the loop is run on: its thread is not stopped
SpecLoop ==
    /\ Init
    /\ [][NextLoop]_vars
    /\ WF_vars(matchIteration(LoopCaller) /\ LoopFrame)
    /\ WF_vars(matchReturn(LoopCaller) /\ LoopFrame)

\* ------------------------------------------------------------ properties
BookOf(obs, sym) == IF sym \in DOMAIN obs THEN obs[sym] ELSE EmptyBook

SideOf(book, t) == IF t = "BUY" THEN book.buyOrders ELSE book.sellOrders

\* the other order of a trade of the call on id
Counterparty(t, id) == IF t.buyOrderId = id THEN t.sellOrderId ELSE t.buyOrderId

RECURSIVE SumQty(_)
SumQty(tr) == IF tr = <<>> THEN 0 ELSE Head(tr).quantity + SumQty(Tail(tr))

\* the quantity traded by id in the first n trades of tr
RECURSIVE FilledIn(_, _, _)
FilledIn(tr, id, n) ==
    IF n = 0 THEN 0
    ELSE (IF id \in TradeIds(tr[n]) THEN tr[n].quantity ELSE 0) + FilledIn(tr, id, n - 1)

\* the trades of tr that name id
FillsOf(tr, id) == {i \in 1..Len(tr) : id \in TradeIds(tr[i])}

Matching == lastOp.kind \in {"place", "modify"} /\ lastOp.ok

\* C1: every trade of a placeOrder or modifyOrder call is priced at the limit
\* price of the resting order, the one that was in the book when the call
\* began, never at the price of the incoming or amended order.
C1_MakerSetsPrice ==
    [][(lastOp'.kind \in {"place", "modify"} /\ lastOp'.ok) =>
        \A i \in 1..Len(trades') :
            \A r \in Queue(BookOf(orderBooks, lastOp'.symbol)) :
                r.orderId = Counterparty(trades'[i], lastOp'.orderId)
                    => trades'[i].price = r.price]_vars

\* C2: of two orders resting on the same side at the same price, the one a
\* placeOrder call accepted first is matched first: the later one gets no
\* fill in a call before the earlier one has traded its whole quantity.
C2_TimePriority ==
    [][(lastOp'.kind \in {"place", "modify"} /\ lastOp'.ok) =>
        LET sym == lastOp'.symbol
            book == BookOf(orderBooks, sym)
            arr == arrival[sym]
        IN  \A t \in Types : \A a, b \in SideOf(book, t) :
              \A i, j \in 1..Len(arr) :
                (/\ arr[i] = a.orderId /\ arr[j] = b.orderId /\ i < j
                 /\ a.price = b.price
                 /\ lastOp'.orderId \notin {a.orderId, b.orderId})
                => \A n \in FillsOf(trades', b.orderId) :
                      FilledIn(trades', a.orderId, n - 1) = a.quantity]_vars

\* a ranks behind b in the queue of side t: top() cannot return a while b is there
RanksBehind(t, a, b) ==
    IF t = "BUY" THEN CompareBuyOrders(a, b) ELSE CompareSellOrders(a, b)

\* the call just made amended an order that was resting when it began
AmendedResting ==
    /\ lastOp'.kind = "modify" /\ lastOp'.ok
    /\ lastOp'.orderId \in Resting(BookOf(orderBooks, lastOp'.symbol))

FillsByTimestamp ==
    (lastOp'.kind \in {"place", "modify"} /\ lastOp'.ok) =>
        LET book == BookOf(orderBooks, lastOp'.symbol)
        IN  \A t \in Types : \A a, b \in SideOf(book, t) :
                (/\ a.price = b.price /\ a.timestamp < b.timestamp
                 /\ lastOp'.orderId \notin {a.orderId, b.orderId})
                => \A n \in FillsOf(trades', b.orderId) :
                      FilledIn(trades', a.orderId, n - 1) = a.quantity

\* an amend of a resting order leaves its timestamp as it was, so the order
\* ranks ahead of every order at its new price with a later timestamp
AmendKeepsTimestamp ==
    AmendedResting =>
        \A t \in Types : \A a \in SideOf(orderBooks'[lastOp'.symbol], t) :
            a.orderId = lastOp'.orderId =>
                /\ \A o \in Queue(orderBooks[lastOp'.symbol]) :
                      o.orderId = a.orderId => a.timestamp = o.timestamp
                /\ \A b \in SideOf(orderBooks'[lastOp'.symbol], t) :
                      (b.price = a.price /\ b.timestamp > a.timestamp)
                          => RanksBehind(t, b, a)

C4_IndexMatchesQueues ==
    /\ \A sym \in DOMAIN orderBooks :
          LET book == orderBooks[sym]
          IN  /\ \A id \in DOMAIN book.allOrders :
                    /\ Cardinality({o \in Queue(book) : o.orderId = id}) = 1
                    /\ \A o \in Queue(book) : o.orderId = id => o.quantity > 0
              /\ \A o \in Queue(book) : o.orderId \in DOMAIN book.allOrders
    /\ \A f \in filled : f[2] \notin DOMAIN orderBooks[f[1]].allOrders

\* C5: at rest no book is crossed or locked: every resting buy is priced
\* strictly below every resting sell of its symbol.
C5_NonCrossing ==
    \A sym \in DOMAIN orderBooks :
        \A b \in orderBooks[sym].buyOrders : \A s \in orderBooks[sym].sellOrders :
            b.price < s.price

\* a call that traded left a book with both sides populated
C5_Witness ==
    /\ Matching /\ trades # <<>>
    /\ orderBooks[lastOp.symbol].buyOrders # {}
    /\ orderBooks[lastOp.symbol].sellOrders # {}

\* the quantity with which id rests in the book, 0 if it does not rest
RestingQty(book, id) ==
    IF id \in Resting(book)
    THEN (CHOOSE o \in Queue(book) : o.orderId = id).quantity
    ELSE 0

\* C6: the trades of an accepted placeOrder(O) and the quantity O rests with
\* add up to O's incoming quantity, and every trade names O.
C6_Conservation ==
    (lastOp.kind = "place" /\ lastOp.ok) =>
        /\ SumQty(trades) + RestingQty(orderBooks[lastOp.symbol], lastOp.orderId)
              = lastOp.quantity
        /\ \A i \in 1..Len(trades) : lastOp.orderId \in TradeIds(trades[i])

\* a placed order traded a part of its quantity and rests with the remainder
C6_Witness ==
    /\ lastOp.kind = "place" /\ lastOp.ok /\ trades # <<>>
    /\ lastOp.orderId \in Resting(orderBooks[lastOp.symbol])

\* C7: no two live orders of the engine share an id, across all the books.
C7_EngineWideUniqueIds ==
    \A s1, s2 \in DOMAIN orderBooks :
        s1 # s2 => Resting(orderBooks[s1]) \cap Resting(orderBooks[s2]) = {}

\* the call just made placed an id that was resting in the book of its symbol
PlacedResting ==
    /\ lastOp'.kind = "place"
    /\ lastOp'.orderId \in Resting(BookOf(orderBooks, lastOp'.symbol))

\* C8: a placeOrder whose id is resting in the book of its symbol returns no
\* trade and leaves that book's queues and index as they were.
C8_DuplicatePlaceNoOp ==
    [][PlacedResting =>
        /\ trades' = <<>>
        /\ orderBooks' = orderBooks
        /\ arrival' = arrival]_vars

\* a placeOrder was rejected for an id that rests in the book
C8_Witness ==
    /\ lastOp.kind = "place" /\ ~lastOp.ok
    /\ lastOp.orderId \in Resting(orderBooks[lastOp.symbol])

\* the books in which id rests
RestsIn(obs, id) == {sym \in DOMAIN obs : id \in Resting(obs[sym])}

\* C9: cancelOrder of an id that rests in no book returns false and changes
\* no book; cancelOrder of a resting id returns true, and false when repeated
\* at once.
C9_IdempotentCancel ==
    [][lastOp'.kind = "cancel" =>
        /\ RestsIn(orderBooks, lastOp'.orderId) = {}
              => (~lastOp'.ok /\ orderBooks' = orderBooks)
        /\ RestsIn(orderBooks, lastOp'.orderId) # {} => lastOp'.ok
        /\ (lastOp.kind = "cancel" /\ lastOp.ok /\ lastOp.orderId = lastOp'.orderId)
              => ~lastOp'.ok]_vars

\* C10: cancelOrder of an order whose whole quantity has traded returns false.
C10_FilledNotCancellable ==
    [][(/\ lastOp'.kind = "cancel"
        /\ \E f \in filled : f[2] = lastOp'.orderId
        /\ RestsIn(orderBooks, lastOp'.orderId) = {})
       => ~lastOp'.ok]_vars

\* ------------------------------------------------------------ notifier
\* the last call was cut short by an exception of the notifier
Threw == sent # <<>> /\ sent[Len(sent)].threw

\* the queues show the trade: the two orders it names are no longer both
\* queued, since a trade takes the whole quantity of one of them
Reflects(buy, sell, trade) ==
    ~ /\ trade.buyOrderId \in {o.orderId : o \in buy}
      /\ trade.sellOrderId \in {o.orderId : o \in sell}

\* C11: when the notifier throws inside the matching loop of a placeOrder or
\* modifyOrder call, the book the call leaves is not crossed, its index holds
\* exactly the queued orders, and the queues show every trade the loop built.
C11_NotifierFaultKeepsInvariants ==
    Threw =>
        LET book == orderBooks[lastOp.symbol]
        IN  /\ \A b \in book.buyOrders : \A s \in book.sellOrders : b.price < s.price
            /\ \A id \in DOMAIN book.allOrders :
                  Cardinality({o \in Queue(book) : o.orderId = id}) = 1
            /\ \A o \in Queue(book) : o.orderId \in DOMAIN book.allOrders
            /\ \A i \in 1..Len(sent) :
                  Reflects(book.buyOrders, book.sellOrders, sent[i].trade)

\* C20: when placeOrder returns, the notifier has been handed the returned
\* trades, one notification each and in the order of the list, and at each
\* notification the queues already showed the trade it announced.
C20_SynchronousOrderedDelivery ==
    lastOp.kind = "place" =>
        \A i \in 1..Len(trades) :
            /\ i <= Len(sent)
            /\ sent[i].trade = trades[i]
            /\ Reflects(sent[i].buyOrders, sent[i].sellOrders, sent[i].trade)

\* ---------------------------------------------------------- concurrency
\* C12: concurrent calls are serialized: no call returns a trade with an
\* order that another caller has inserted and not yet run the matching loop
\* for, so every caller sees only books on which each earlier call has run to
\* its end.
C12_SerializedDispatch ==
    \A c \in Callers :
        inProgress[c] # Idle =>
            ~ /\ lastOp.kind = "place"
              /\ lastOp.symbol = inProgress[c].symbol
              /\ inProgress[c].orderId \in Traded(trades)

\* ----------------------------------------------------------- validation
\* no book differs between the two directories, a missing book counting as an
\* empty one
SameBooks(obs1, obs2) == \A sym \in Symbols : BookOf(obs1, sym) = BookOf(obs2, sym)

\* C13: a placeOrder whose price or quantity is not positive, and a
\* modifyOrder whose new price or new quantity is not positive, return no
\* trade and change no book.
C13_DefensiveValidation ==
    [][/\ \A sym \in Symbols, t \in Types, p \in UncheckedPrices,
             q \in UncheckedQuantities, dt \in 0..1 : \A id \in PlaceIds[sym] :
             ((p <= 0 \/ q <= 0) /\ placeOrder(id, sym, t, p, q, dt))
                => (trades' = <<>> /\ SameBooks(orderBooks, orderBooks'))
       /\ \A id \in Ids, p \in UncheckedPrices, q \in UncheckedQuantities :
             ((p <= 0 \/ q <= 0) /\ modifyOrder(id, p, q))
                => (trades' = <<>> /\ SameBooks(orderBooks, orderBooks'))]_vars

\* --------------------------------------------------------- processOrder
\* C14: processOrder fills an incoming order only against resting orders of
\* the incoming order's symbol.
C14_NoCrossSymbolMatching ==
    \A i \in 1..Len(executed) :
        executed[i].resting.symbol = executed[i].incoming.symbol

\* ------------------------------------------------------- book directory
\* C15: printOrderBook, getAllOrders, and modifyOrder or cancelOrder of an id
\* that no book indexes leave the set of symbols that have a book as it was;
\* the set changes only in a placeOrder call.
C15_NoBookOnRead ==
    [][/\ (\/ lastOp'.kind \in {"print", "getAll"}
           \/ lastOp'.kind \in {"modify", "cancel"} /\ lastOp'.symbol = "none")
          => DOMAIN orderBooks' = DOMAIN orderBooks
       /\ DOMAIN orderBooks' # DOMAIN orderBooks => lastOp'.kind = "place"]_vars

\* printOrderBook was called for a symbol that has no book, while another has
C15_Witness ==
    /\ lastOp.kind = "print" /\ ~lastOp.ok
    /\ lastOp.symbol \notin DOMAIN orderBooks
    /\ DOMAIN orderBooks # {}

\* -------------------------------------------------------------- trade ids
\* the trade was built with a trade id: matchOrders builds its trades from
\* the two order ids, the symbol, the price and the quantity
HasTradeId(t) == "tradeId" \in DOMAIN t

\* C16: every trade the matching loop emits carries a trade id the engine
\* gave it, greater than the trade id of every trade emitted before it.
C16_TradeIdsMonotonic ==
    \A i \in 1..Len(trades) :
        /\ HasTradeId(trades[i])
        /\ \A j \in 1..(i - 1) : trades[j].tradeId < trades[i].tradeId

\* ---------------------------------------------------------------- amend
\* C17: modifyOrder of an id that rests in no book returns no trade and
\* leaves the queues and the index of every book as they were.
C17_AmendUnknownNoOp ==
    [][(lastOp'.kind = "modify" /\ RestsIn(orderBooks, lastOp'.orderId) = {})
        => (trades' = <<>> /\ orderBooks' = orderBooks)]_vars

\* the order with this id that is queued in the book
QueuedOrder(book, id) == CHOOSE o \in Queue(book) : o.orderId = id

\* modifyOrder(id, p, q) was just called and the order it found was resting
AmendOfResting(id, p, q) ==
    /\ modifyOrder(id, p, q)
    /\ FindBook(orderBooks, id) # "none"
    /\ id \in Resting(orderBooks[FindBook(orderBooks, id)])

\* C18: after modifyOrder(id, p, q) on a resting order every returned trade
\* names id, and the order rests once, under its id, symbol and side, at
\* price p with q less the returned trade quantities, or, when that is 0,
\* rests no longer.
C18_AmendKeepsIdentity ==
    [][lastOp'.kind = "modify" =>
        \A id \in {lastOp'.orderId}, p \in Prices, q \in {lastOp'.quantity} :
          AmendOfResting(id, p, q) =>
            LET sym == FindBook(orderBooks, id)
                old == QueuedOrder(orderBooks[sym], id)
                left == q - SumQty(trades')
            IN  /\ \A i \in 1..Len(trades') : id \in TradeIds(trades'[i])
                /\ IF left = 0
                   THEN id \notin Resting(orderBooks'[sym])
                   ELSE /\ {o \in Queue(orderBooks'[sym]) : o.orderId = id}
                              \subseteq SideOf(orderBooks'[sym], old.type)
                        /\ Cardinality({o \in Queue(orderBooks'[sym]) :
                                            o.orderId = id}) = 1
                        /\ QueuedOrder(orderBooks'[sym], id) =
                              [old EXCEPT !.price = p, !.quantity = left]]_vars

\* an amend traded a part of the new quantity and the order rests with the rest
C18_Witness ==
    /\ lastOp.kind = "modify" /\ lastOp.ok /\ trades # <<>>
    /\ lastOp.orderId \in Resting(orderBooks[lastOp.symbol])
    /\ RestingQty(orderBooks[lastOp.symbol], lastOp.orderId)
          = lastOp.quantity - SumQty(trades)

\* -------------------------------------------------------- price priority
\* a is priced strictly better than b for the side they rest on
BetterPriced(t, a, b) ==
    IF t = "SELL" THEN a.price < b.price ELSE a.price > b.price

\* C19: in a placeOrder or modifyOrder call, no resting order is filled while
\* a strictly better priced order resting on its side has quantity left; the
\* position of a trade in the returned list is the order of its making.
C19_PricePriority ==
    [][(lastOp'.kind \in {"place", "modify"} /\ lastOp'.ok) =>
        LET book == BookOf(orderBooks, lastOp'.symbol)
        IN  \A t \in Types : \A a, b \in SideOf(book, t) :
                (/\ BetterPriced(t, a, b)
                 /\ lastOp'.orderId \notin {a.orderId, b.orderId})
                => \A n \in FillsOf(trades', b.orderId) :
                      FilledIn(trades', a.orderId, n - 1) = a.quantity]_vars

\* a buy was filled against two resting sells, the lower priced one first
C19_Witness ==
    /\ lastOp.kind = "place" /\ lastOp.ok /\ Len(trades) = 2
    /\ trades[1].buyOrderId = lastOp.orderId
    /\ trades[2].buyOrderId = lastOp.orderId
    /\ trades[1].sellOrderId # trades[2].sellOrderId
    /\ trades[1].price < trades[2].price

\* ------------------------------------------- the life of an order: ghosts
\* the calls followed with the two accounts `cancelled` and `lifetime`; one
\* call more than MaxOps, so that an order can be placed in each of two
\* symbols, cancelled and matched
TrackedOps == MaxOps + 1
\* the ids of these calls, used in every symbol
TrackedIds == {"A", "B"}

LifetimeAfter(sym, id, q, accepted, tr) ==
    LET base == IF accepted
                THEN [lifetime EXCEPT ![<<sym, id>>] = [placed |-> q, traded |-> 0]]
                ELSE lifetime
    IN  [k \in DOMAIN base |->
            IF k[1] = sym
            THEN [base[k] EXCEPT !.traded = @ + FilledIn(tr, k[2], Len(tr))]
            ELSE base[k]]

\* MatchingEngine::placeOrder
placeOrderTracked(calls, id, sym, t, p, q) ==
    /\ nOps < calls
    /\ nOps' = nOps + 1
    /\ UNCHANGED now
    /\ LET order == Order(id, sym, t, p, q, now)
           obs == getOrderBook(orderBooks, sym)
       IN  \E r \in addOrder(obs[sym], sym, order) :
             /\ orderBooks' = [obs EXCEPT ![sym] = r.book]
             /\ trades' = r.trades
             /\ lastOp' = Op("place", id, sym, q, r.ok)
             /\ arrival' = ArrivalAfter(sym, r.book, IF r.ok THEN {id} ELSE {})
             /\ filled' = FilledAfter(sym, r.book, r.trades,
                                      IF r.ok THEN {id} ELSE {})
             /\ cancelled' = IF r.ok THEN cancelled \ {id} ELSE cancelled
             /\ lifetime' = LifetimeAfter(sym, id, q, r.ok, r.trades)

\* MatchingEngine::cancelOrder
cancelOrderTracked(calls, id) ==
    /\ nOps < calls
    /\ nOps' = nOps + 1
    /\ UNCHANGED <<now, lifetime>>
    /\ trades' = <<>>
    /\ LET sym == FindBook(orderBooks, id)
       IN  IF sym = "none"
           THEN /\ UNCHANGED <<orderBooks, arrival, filled, cancelled>>
                /\ lastOp' = Op("cancel", id, "none", 0, FALSE)
           ELSE LET r == bookCancelOrder(orderBooks[sym], id)
                IN  /\ orderBooks' = [orderBooks EXCEPT ![sym] = r.book]
                    /\ lastOp' = Op("cancel", id, sym, 0, r.ok)
                    /\ arrival' = ArrivalAfter(sym, r.book, {})
                    /\ filled' = FilledAfter(sym, r.book, <<>>, {id})
                    /\ cancelled' = IF r.ok THEN cancelled \cup {id} ELSE cancelled

NextTracked ==
    \/ \E sym \in Symbols, t \in Types, p \in Prices, q \in Quantities :
          \E id \in TrackedIds :
             /\ placeOrderTracked(TrackedOps, id, sym, t, p, q)
             /\ UNCHANGED <<sent, inProgress, orderBook, executed>>
    \/ \E id \in TrackedIds :
          /\ cancelOrderTracked(TrackedOps, id)
          /\ UNCHANGED <<sent, inProgress, orderBook, executed>>

SpecTracked == Init /\ [][NextTracked]_vars

\* the same calls with the ids and the number of calls of Next
NextLifetime ==
    \/ \E sym \in Symbols, t \in Types, p \in Prices, q \in Quantities :
          \E id \in PlaceIds[sym] :
             /\ placeOrderTracked(MaxOps, id, sym, t, p, q)
             /\ UNCHANGED <<sent, inProgress, orderBook, executed>>
    \/ \E id \in Ids :
          /\ cancelOrderTracked(MaxOps, id)
          /\ UNCHANGED <<sent, inProgress, orderBook, executed>>

SpecLifetime == Init /\ [][NextLifetime]_vars

\* C21: cancelOrder returns no trade, and once it has returned true for an id
\* no later call returns a trade that names the id, until a placeOrder of the
\* id is accepted.
C21_CancelRemovesForGood ==
    /\ lastOp.kind = "cancel" => trades = <<>>
    /\ Traded(trades) \cap cancelled = {}

\* C29: with placeOrder and cancelOrder calls of positive quantities, the
\* quantity traded in the name of an order never exceeds the quantity it was
\* placed with, and an order that rests does so with the placed quantity less
\* the quantity traded in its name.
C29_LifetimeFillBound ==
    \A sym \in Symbols : \A id \in Ids :
        /\ lifetime[<<sym, id>>].traded <= lifetime[<<sym, id>>].placed
        /\ id \in Resting(BookOf(orderBooks, sym)) =>
              RestingQty(orderBooks[sym], id)
                 = lifetime[<<sym, id>>].placed - lifetime[<<sym, id>>].traded

\* an order has traded its whole quantity in two calls after its own
C29_Witness ==
    \E sym \in DOMAIN orderBooks : \E id \in Ids \ {lastOp.orderId} :
        /\ lastOp.kind = "place" /\ lastOp.symbol = sym
        /\ lifetime[<<sym, id>>].placed = 2
        /\ lifetime[<<sym, id>>].traded = 2
        /\ SumQty(trades) = 1
        /\ id \in Traded(trades)

\* --------------------------------------------------------------- export
\* the key order of the std::map allOrders
IdOrder == <<"A", "B", "C">>

\* OrderBook::getAllOrders: the values of the index, in key order
bookGetAllOrders(book) ==
    LET ids == SeqFilter(IdOrder, DOMAIN book.allOrders)
    IN  [i \in 1..Len(ids) |-> book.allOrders[ids[i]]]

\* MatchingEngine::getAllOrders: the books' lists one after the other, from
\* the n-th book of the directory on
RECURSIVE allCurrentOrders(_, _)
allCurrentOrders(obs, n) ==
    IF n > Len(SymbolOrder) THEN <<>>
    ELSE (IF SymbolOrder[n] \in DOMAIN obs
          THEN bookGetAllOrders(obs[SymbolOrder[n]]) ELSE <<>>)
         \o allCurrentOrders(obs, n + 1)

\* C22: getAllOrders returns the orders that rest in a queue of some book,
\* each once and with the quantity it rests with, and no other order.
C22_ExportShowsCurrentOrders ==
    lastOp.kind = "getAll" =>
        LET r == allCurrentOrders(orderBooks, 1)
        IN  /\ {r[i] : i \in 1..Len(r)}
                  = UNION {Queue(orderBooks[sym]) : sym \in DOMAIN orderBooks}
            /\ \A i, j \in 1..Len(r) : i # j => r[i] # r[j]

\* ------------------------------------------------- processOrder: levels
\* the orders queued at the levels
LevelOrders(levels) ==
    UNION {{levels[k][i] : i \in 1..Len(levels[k])} : k \in DOMAIN levels}

\* the orders the OrderBook.hpp book holds
BookOrders == LevelOrders(orderBook.buyOrders) \cup LevelOrders(orderBook.sellOrders)

\* C23: when processOrder fills a part of the head order of a level, the order
\* stays in the book with its quantity less the traded quantity, so that the
\* fills against an order never add up to more than it was inserted with.
C23_PartialFillReducesHead ==
    \A i \in 1..Len(executed) :
        executed[i].quantity < executed[i].resting.quantity =>
            \E o \in BookOrders :
                /\ o.orderId = executed[i].resting.orderId
                /\ o.quantity = executed[i].resting.quantity - executed[i].quantity

\* C24: after every processOrder call each price that is a key of buyOrders
\* or of sellOrders has a queue that holds an order.
C24_NoEmptyLevel ==
    /\ \A k \in DOMAIN orderBook.buyOrders : orderBook.buyOrders[k] # <<>>
    /\ \A k \in DOMAIN orderBook.sellOrders : orderBook.sellOrders[k] # <<>>

\* a call took the last order of a level while the book holds other orders
C24_Witness ==
    /\ BookOrders # {}
    /\ \E i \in 1..Len(executed) :
          /\ executed[i].quantity = executed[i].resting.quantity
          /\ executed[i].price \notin
                DOMAIN (IF executed[i].resting.type = "BUY"
                        THEN orderBook.buyOrders ELSE orderBook.sellOrders)

\* the side an order of type t is matched against
Opposite(book, t) == IF t = "BUY" THEN book.sellOrders ELSE book.buyOrders

\* the quantity the first n fills took from the resting order id
RECURSIVE TakenFrom(_, _, _)
TakenFrom(fills, id, n) ==
    IF n = 0 THEN 0
    ELSE (IF fills[n].resting.orderId = id THEN fills[n].quantity ELSE 0)
         + TakenFrom(fills, id, n - 1)

RECURSIVE SumFills(_)
SumFills(fills) ==
    IF fills = <<>> THEN 0 ELSE Head(fills).quantity + SumFills(Tail(fills))

\* the quantity with which order id is in the OrderBook.hpp book after the step
InsertedQty(id) ==
    IF \E o \in LevelOrders(orderBook'.buyOrders) \cup LevelOrders(orderBook'.sellOrders) :
          o.orderId = id
    THEN (CHOOSE o \in LevelOrders(orderBook'.buyOrders)
                        \cup LevelOrders(orderBook'.sellOrders) : o.orderId = id).quantity
    ELSE 0

\* level price a is better than b for an incoming order of type t
BetterLevel(t, a, b) == IF t = "BUY" THEN a < b ELSE a > b

\* C25: processOrder(O) fills O level by level from the best opposing price,
\* each fill at its level's price and only at levels O's price is compatible
\* with; a level is reached only when every better one is used up; the fills
\* and the quantity O is inserted with add up to O's quantity; and O is
\* inserted only when no compatible opposing level is left.
C25_LevelWalk ==
    [][\A sym \in Symbols, t \in Types, p \in Prices, q \in Quantities :
        processOrder(sym, t, p, q) =>
            LET O == LevelOrder(nOps + 1, sym, t, p, q)
                before == LevelOrders(Opposite(orderBook, t))
            IN  /\ \A i \in 1..Len(executed') :
                      /\ executed'[i].price = executed'[i].resting.price
                      /\ executed'[i].resting \in before
                      /\ Compatible(O, executed'[i].price)
                      /\ \A o \in before :
                            BetterLevel(t, o.price, executed'[i].price)
                               => TakenFrom(executed', o.orderId, i - 1) = o.quantity
                /\ SumFills(executed') + InsertedQty(O.orderId) = q
                /\ InsertedQty(O.orderId) > 0 =>
                      \A k \in DOMAIN Opposite(orderBook', t) : ~Compatible(O, k)]_vars

\* an order was filled at the best level and inserted with the rest, the next
\* level being too dear or too cheap for it
C25_Witness ==
    /\ Len(executed) = 1
    /\ \E o \in BookOrders :
          /\ o.orderId = executed[1].incoming.orderId
          /\ o.quantity = executed[1].incoming.quantity - executed[1].quantity
    /\ Opposite(orderBook, executed[1].incoming.type) # <<>>

\* the orders queued on either side of the book of the call in progress
Queued(obs, c) ==
    Cardinality(obs[inProgress[c].symbol].buyOrders)
        + Cardinality(obs[inProgress[c].symbol].sellOrders)

\* C26: a call of addOrder or modifyOrder that entered the matching loop
\* returns, whatever the quantities in the book (zero and negative ones
\* too); every pass that matches leaves fewer orders queued than it found;
\* and the loop is left exactly when a side is empty or the best buy price is
\* below the best sell price.
C26_LoopTerminates ==
    /\ (inProgress[LoopCaller] # Idle) ~> (inProgress[LoopCaller] = Idle)
    /\ [][matchIteration(LoopCaller) =>
            Queued(orderBooks', LoopCaller) < Queued(orderBooks, LoopCaller)]_vars
    /\ [][inProgress[LoopCaller] # Idle =>
            LET book == LoopBook(LoopCaller)
                stop == \/ book.buyOrders = {}
                        \/ book.sellOrders = {}
                        \/ \A b \in book.buyOrders, s \in book.sellOrders :
                              b.price < s.price
            IN  /\ stop => (inProgress'[LoopCaller] = Idle /\ trades' = trades)
                /\ ~stop => (inProgress'[LoopCaller] # Idle
                             /\ Len(trades') = Len(trades) + 1)]_vars

\* a call returned after two passes, one of them on a quantity that is not
\* positive
C26_Witness ==
    /\ inProgress[LoopCaller] = Idle
    /\ lastOp.ok
    /\ Len(trades) >= 2
    /\ \E i \in 1..Len(trades) : trades[i].quantity <= 0

\* C28: the trade a pass of matchOrders emits names as buyer an order of type
\* BUY that no queued buy order ranks before (none has a higher price, none
\* of its price an earlier timestamp) and as seller an order of type SELL
\* that no queued sell order ranks before, and its quantity is the smaller of
\* the quantities the two orders were queued with when the pass began.
C28_TradeSidesAndSize ==
    [][matchIteration(LoopCaller) =>
        LET book == LoopBook(LoopCaller)
            t == trades'[Len(trades')]
        IN  \E b \in book.buyOrders, s \in book.sellOrders :
              /\ b.orderId = t.buyOrderId /\ b.type = "BUY"
              /\ s.orderId = t.sellOrderId /\ s.type = "SELL"
              /\ \A x \in book.buyOrders :
                    \/ x.price < b.price
                    \/ x.price = b.price /\ x.timestamp >= b.timestamp
              /\ \A x \in book.sellOrders :
                    \/ x.price > s.price
                    \/ x.price = s.price /\ x.timestamp >= s.timestamp
              /\ t.quantity <= b.quantity /\ t.quantity <= s.quantity
              /\ t.quantity \in {b.quantity, s.quantity}]_vars

\* a pass has matched two orders of different positive quantities: the larger
\* one is queued again with the difference
C28_Witness ==
    /\ inProgress[LoopCaller] # Idle
    /\ trades # <<>>
    /\ trades[Len(trades)].quantity > 0
    /\ TradeIds(trades[Len(trades)]) \cap Resting(LoopBook(LoopCaller)) # {}

\* every book but sym's is as it was, and every trade returned is of sym
OnlyTouches(sym) ==
    /\ \A s \in Symbols \ {sym} : BookOf(orderBooks', s) = BookOf(orderBooks, s)
    /\ \A i \in 1..Len(trades') : trades'[i].symbol = sym

C30_CancelTouchesOnlyTarget ==
    [][(lastOp'.kind = "cancel" /\ lastOp'.ok) =>
        LET id == lastOp'.orderId
            before == orderBooks[lastOp'.symbol]
            after == orderBooks'[lastOp'.symbol]
            type == before.allOrders[id].type
            other == IF type = "BUY" THEN "SELL" ELSE "BUY"
        IN  /\ SideOf(after, other) = SideOf(before, other)
            /\ {o \in SideOf(before, type) : o.orderId # id} \subseteq SideOf(after, type)
            /\ SideOf(after, type) \subseteq SideOf(before, type)
            /\ DOMAIN after.allOrders = DOMAIN before.allOrders \ {id}
            /\ \A x \in DOMAIN after.allOrders : after.allOrders[x] = before.allOrders[x]]_vars

\* an order was cancelled and another one is still queued in its book
C30_Witness ==
    /\ lastOp.kind = "cancel"
    /\ lastOp.ok
    /\ Queue(orderBooks[lastOp.symbol]) # {}
    /\ lastOp.orderId \notin Resting(orderBooks[lastOp.symbol])

====
